---- MODULE Spec2Model ----
(***************************************************************************)
(* Model of actiwatch/analysis.py: the per-day reducers sleep_metrics,     *)
(* sleep_latency, bedtime, relative_amplitude and total_values, applied to *)
(* an epoch table.                                                         *)
(*                                                                         *)
(* An epoch table is a sequence of records with the columns watch_ID,      *)
(* DateTime, Hour, Split_Day, Interval, Sleep_Acti, Activity and Light.    *)
(* DateTime is counted in minutes; Hour is the hour of day of DateTime.    *)
(* Floating point values are kept exact as fractions [num, den]; the       *)
(* fraction with den = 0 stands for NaN.                                   *)
(*                                                                         *)
(* The result of a call is a record [kind, error, key, columns, rows]:     *)
(*   kind = "None"   the function returned None                            *)
(*   kind = "raise"  the function raised `error` (about labels `key`)      *)
(*   kind = "table"  the function returned a frame with these columns and  *)
(*                   rows (each row a function on the columns)             *)
(***************************************************************************)
EXTENDS Integers, Sequences, FiniteSets, TLC

VARIABLES df, call, result, repeat

vars == <<df, call, result, repeat>>

(* ---------------------------------------------------------------- bounds *)

MaxEpochs == 3
MaxDays == 2
MaxHours == 11
MaxFirstHour == 2
MaxBase == 1
MaxPeak == 1
MaxCallEpochs == 2
MaxLabelEpochs == 4

LastHour == 23
Window10 == 10
Window5 == 5

Intervals == {"Active", "Rest", "Falling_Asleep", "Waking_Up"}
Classes == {"Sleep", "Wake"}
RecFreqs == {30, 60}
StartHours == 0..LastHour
ActivityValues == {5, 10, 15}
LightValues == {1, 2, 3}
WatchID == "W1"

(* ------------------------------------------------------------- fractions *)

Frac(n, d) == [num |-> n, den |-> d]
NaN == Frac(0, 0)
IsNaN(x) == x.den = 0
FracEq(x, y) == /\ ~IsNaN(x)
                /\ ~IsNaN(y)
                /\ x.num * y.den = y.num * x.den
NaT == -1

(* ------------------------------------------------------- frame primitives *)

Rows(t) == DOMAIN t

Unique(t, col) == {t[i][col] : i \in Rows(t)}

SetMin(S) == CHOOSE m \in S : \A x \in S : m <= x
SetMax(S) == CHOOSE m \in S : \A x \in S : m >= x

RECURSIVE SortedSeq(_)
SortedSeq(S) == IF S = {} THEN <<>>
                ELSE LET m == SetMin(S) IN <<m>> \o SortedSeq(S \ {m})

RECURSIVE SumSeq(_)
SumSeq(s) == IF s = <<>> THEN 0 ELSE Head(s) + SumSeq(Tail(s))

None == [kind |-> "None", error |-> "", key |-> {}, columns |-> {}, rows |-> <<>>]
NoCall == [kind |-> "nocall", error |-> "", key |-> {}, columns |-> {}, rows |-> <<>>]
Raise(e, k) == [kind |-> "raise", error |-> e, key |-> k, columns |-> {}, rows |-> <<>>]
Table(cols, rs) == [kind |-> "table", error |-> "", key |-> {}, columns |-> cols, rows |-> rs]

watch_ID(t) == t[1].watch_ID

(* pd.pivot_table(df, values="watch_ID", columns=["Sleep_Acti"],            *)
(* index=["Split_Day", "Interval"], aggfunc="count", fill_value=0):         *)
(* one row per (Split_Day, Interval) group of the table, one column per     *)
(* Sleep_Acti value of the table, absent combinations filled with 0.        *)
pivot(t) ==
    [index   |-> {<<t[i].Split_Day, t[i].Interval>> : i \in Rows(t)},
     columns |-> Unique(t, "Sleep_Acti"),
     count   |-> [g \in {<<t[i].Split_Day, t[i].Interval>> : i \in Rows(t)} |->
                   [c \in Unique(t, "Sleep_Acti") |->
                     Cardinality({i \in Rows(t) : /\ t[i].Split_Day = g[1]
                                                  /\ t[i].Interval = g[2]
                                                  /\ t[i].Sleep_Acti = c})]]]

(* ---------------------------------------------------------- sleep_metrics *)

(* metrics_filter keeps the Rest rows of the pivot.  Reading the column     *)
(* "Sleep" or "Wake" raises KeyError when the pivot has no such column,     *)
(* and assigning the scalar watch_ID to a new column of a frame without     *)
(* rows raises ValueError ("cannot set a frame with no defined index and a  *)
(* scalar").                                                                *)
sleep_metrics(t, rec_freq) ==
    LET p == pivot(t)
        days == SortedSeq({g[1] : g \in {h \in p.index : h[2] = "Rest"}})
        row(d) == LET s == p.count[<<d, "Rest">>]["Sleep"]
                      w == p.count[<<d, "Rest">>]["Wake"]
                  IN [Split_Day |-> d, Interval |-> "Rest", Sleep |-> s, Wake |-> w,
                      TST_Min  |-> Frac(s * rec_freq, 60),
                      WASO_Min |-> Frac(w * rec_freq, 60),
                      SE       |-> IF s + w = 0 THEN NaN ELSE Frac(100 * s, s + w),
                      watch_ID |-> watch_ID(t)]
    IN  IF "Sleep" \notin p.columns THEN Raise("KeyError", {"Sleep"})
        ELSE IF "Wake" \notin p.columns THEN Raise("KeyError", {"Wake"})
        ELSE IF days = <<>> THEN Raise("ValueError", {"watch_ID"})
        ELSE Table({"Split_Day", "Interval", "Sleep", "Wake",
                    "TST_Min", "WASO_Min", "SE", "watch_ID"},
                   [i \in 1..Len(days) |-> row(days[i])])

(* ---------------------------------------------------------- sleep_latency *)

(* The guard of sleep_latency: some epoch of the table is Falling_Asleep.   *)
sleep_latency_applicable_wrong_label(t) == "Waking_Up" \in Unique(t, "Interval")

sleep_latency_applicable(t) == "Falling_Asleep" \in Unique(t, "Interval")

(* The label a phase takes in latency_filter.replace(...).                  *)
latency_column(iv) == IF iv = "Falling_Asleep" THEN "Sleep_Latency_Min"
                      ELSE "Wake_Latency_Min"

(* latency_filter.pivot(index="Split_Day", columns="Interval",              *)
(* values="Latency").fillna(0): one row per Split_Day of latency_filter,    *)
(* one column per phase label of latency_filter, missing cells 0.           *)
latency_pivot(t, rec_freq) ==
    LET p == pivot(t)
        latency_filter == {g \in p.index : g[2] \in {"Falling_Asleep", "Waking_Up"}}
        Latency(g) == Frac((p.count[g]["Sleep"] + p.count[g]["Wake"]) * rec_freq, 60)
        cols == {latency_column(g[2]) : g \in latency_filter}
        days == SortedSeq({g[1] : g \in latency_filter})
        cell(d, iv) == IF <<d, iv>> \in latency_filter THEN Latency(<<d, iv>>)
                       ELSE Frac(0, 1)
        row(d) == [c \in cols \cup {"Split_Day", "watch_ID"} |->
                     CASE c = "Split_Day" -> d
                       [] c = "watch_ID" -> watch_ID(t)
                       [] c = "Sleep_Latency_Min" -> cell(d, "Falling_Asleep")
                       [] c = "Wake_Latency_Min" -> cell(d, "Waking_Up")]
    IN  Table(cols \cup {"Split_Day", "watch_ID"}, [i \in 1..Len(days) |-> row(days[i])])

(* latency_filter is never empty here: it has the Falling_Asleep rows.      *)
sleep_latency(t, rec_freq) ==
    IF ~sleep_latency_applicable(t) THEN None
    ELSE IF "Sleep" \notin pivot(t).columns THEN Raise("KeyError", {"Sleep"})
    ELSE IF "Wake" \notin pivot(t).columns THEN Raise("KeyError", {"Wake"})
    ELSE latency_pivot(t, rec_freq)

(* ---------------------------------------------------------------- bedtime *)

(* The guard of bedtime: some epoch of the table is Waking_Up.              *)
bedtime_applicable(t) == "Waking_Up" \in Unique(t, "Interval")

(* df[...].groupby(["Split_Day", "Interval"]).min(), pivoted on Interval:   *)
(* the earliest DateTime of the day's epochs of the phase, NaT if none.     *)
bedtime_pivot(t, d, iv) ==
    LET g == {t[i].DateTime : i \in {j \in Rows(t) : /\ t[j].Split_Day = d
                                                      /\ t[j].Interval = iv}}
    IN  IF g = {} THEN NaT ELSE SetMin(g)

(* lambda x: x.hour + x.minute / 60; the fields of NaT are nan.             *)
hour_fraction(x) == IF x = NaT THEN NaN
                    ELSE Frac(((x \div 60) % 24) * 60 + (x % 60), 60)

(* drop(columns=["Falling_Asleep", "Active"]) raises KeyError for the       *)
(* labels that are no column of the pivot, and reading the column "Rest"    *)
(* raises KeyError when no epoch is Rest.                                   *)
bedtime(t) ==
    LET labels == Unique(t, "Interval")
        days == SortedSeq(Unique(t, "Split_Day"))
        kept == labels \ {"Falling_Asleep", "Active"}
        row(d) == [c \in kept \cup {"Split_Day", "Time_Bed", "Time_Wake", "watch_ID"} |->
                     CASE c = "Split_Day" -> d
                       [] c = "watch_ID" -> watch_ID(t)
                       [] c = "Time_Bed" -> hour_fraction(bedtime_pivot(t, d, "Rest"))
                       [] c = "Time_Wake" -> hour_fraction(bedtime_pivot(t, d, "Waking_Up"))
                       [] OTHER -> bedtime_pivot(t, d, c)]
    IN  IF ~bedtime_applicable(t) THEN None
        ELSE IF {"Falling_Asleep", "Active"} \ labels # {}
             THEN Raise("KeyError", {"Falling_Asleep", "Active"} \ labels)
        ELSE IF "Rest" \notin labels THEN Raise("KeyError", {"Rest"})
        ELSE Table(kept \cup {"Split_Day", "Time_Bed", "Time_Wake", "watch_ID"},
                   [i \in 1..Len(days) |-> row(days[i])])

(* ------------------------------------------------------ relative_amplitude *)

(* hours = sorted(df["Hour"].unique()); hours[start_hour::] +               *)
(* hours[:start_hour]: the slices cut the list at POSITION start_hour (at   *)
(* its end when the list is shorter).                                       *)
hours(t, start_hour) ==
    LET sorted == SortedSeq(Unique(t, "Hour"))
        k == IF start_hour < Len(sorted) THEN start_hour ELSE Len(sorted)
    IN  SubSeq(sorted, k + 1, Len(sorted)) \o SubSeq(sorted, 1, k)

(* hours.index(x), for the list hs *)
Order(hs, x) == CHOOSE i \in 1..Len(hs) : hs[i] = x

RECURSIVE SumRows(_, _, _)
SumRows(t, I, col) ==
    IF I = {} THEN 0
    ELSE LET i == CHOOSE j \in I : TRUE IN t[i][col] + SumRows(t, I \ {i}, col)

(* groupby(["Split_Day", "Hour"]).sum(): the Activity of a day's hour.      *)
HourSum(t, d, h) ==
    SumRows(t, {i \in Rows(t) : t[i].Split_Day = d /\ t[i].Hour = h}, "Activity")

(* The Activity column of rest_phase for one Split_Day, after               *)
(* sort_values(by=["Split_Day", "Order"]); hs is the list `hours`.          *)
rest_phase(t, hs, d) ==
    LET present == {t[i].Hour : i \in {j \in Rows(t) : t[j].Split_Day = d}}
        orders == SortedSeq({Order(hs, h) : h \in present})
    IN  [i \in 1..Len(orders) |-> HourSum(t, d, hs[orders[i]])]

(* rolling(w).sum() of one group: defined from the w-th entry on.           *)
rolling(s, w) ==
    [i \in 1..Len(s) |-> IF i < w THEN NaN
                         ELSE Frac(SumSeq(SubSeq(s, i - w + 1, i)), 1)]

Defined(r) == {r[i].num : i \in {j \in DOMAIN r : ~IsNaN(r[j])}}

(* groupby(["Split_Day"])["Activity_Sum_10"].max(): NaN entries skipped.    *)
m10(t, hs, d) ==
    LET r == Defined(rolling(rest_phase(t, hs, d), Window10))
    IN  IF r = {} THEN NaN ELSE Frac(SetMax(r), 1)

(* groupby(["Split_Day"])["Activity_Sum_5"].min(): NaN entries skipped.     *)
l5(t, hs, d) ==
    LET r == Defined(rolling(rest_phase(t, hs, d), Window5))
    IN  IF r = {} THEN NaN ELSE Frac(SetMin(r), 1)

(* (ra["M10"] - ra["L5"]) / (ra["M10"] + ra["L5"]) *)
RA_swapped(m, l) == IF IsNaN(m) \/ IsNaN(l) THEN NaN
                    ELSE IF m.num - l.num = 0 THEN NaN
                    ELSE Frac(m.num + l.num, m.num - l.num)

RA(m, l) == IF IsNaN(m) \/ IsNaN(l) THEN NaN
            ELSE IF m.num + l.num = 0 THEN NaN
            ELSE Frac(m.num - l.num, m.num + l.num)

ra(t, hs) ==
    LET days == SortedSeq(Unique(t, "Split_Day"))
        row(d) == [Split_Day |-> d,
                   RA |-> RA(m10(t, hs, d), l5(t, hs, d)),
                   watch_ID |-> watch_ID(t)]
    IN  Table({"Split_Day", "RA", "watch_ID"}, [i \in 1..Len(days) |-> row(days[i])])

relative_amplitude(t, start_hour) == ra(t, hours(t, start_hour))

(* ------------------------------------------------------------ total_values *)

(* pd.pivot_table(df, values=["Activity", "Light"], index=["Split_Day"],    *)
(* aggfunc="sum"): the sum of a column over all the epochs of a day.        *)
DaySum_count(t, d, col) == Cardinality({i \in Rows(t) : t[i].Split_Day = d})

DaySum(t, d, col) == SumRows(t, {i \in Rows(t) : t[i].Split_Day = d}, col)

total_values(t, rec_freq) ==
    LET days == SortedSeq(Unique(t, "Split_Day"))
        row(d) == [Split_Day |-> d,
                   Activity |-> DaySum(t, d, "Activity"),
                   Light |-> DaySum(t, d, "Light"),
                   watch_ID |-> watch_ID(t)]
    IN  Table({"Split_Day", "Activity", "Light", "watch_ID"},
              [i \in 1..Len(days) |-> row(days[i])])

(* ------------------------------------------------------------ the tables *)

(* Split_Day sequences of length n: non-decreasing, starting at 1, each day *)
(* the same as or the one after the day before, at most MaxDays days.       *)
DaySeqs(n) == {s \in [1..n -> 1..MaxDays] :
                 /\ s[1] = 1
                 /\ \A i \in 1..(n - 1) : s[i + 1] \in {s[i], s[i] + 1}}

Epoch(dt, day, iv, cl, act, li) ==
    [watch_ID |-> WatchID, DateTime |-> dt, Hour |-> (dt \div 60) % 24,
     Split_Day |-> day, Interval |-> iv, Sleep_Acti |-> cl,
     Activity |-> act, Light |-> li]

(* Tables that vary the phase and the classification of every epoch; the   *)
(* epochs are 45 minutes apart, from 22:30 on.                             *)
PhaseTablesOf(n) ==
    {[i \in 1..n |-> Epoch(1350 + 45 * (i - 1), d[i], iv[i], cl[i], 1, 1)] :
        d \in DaySeqs(n), iv \in [1..n -> Intervals], cl \in [1..n -> Classes]}

RECURSIVE PhaseTablesUpTo(_)
PhaseTablesUpTo(m) == IF m = 0 THEN {} ELSE PhaseTablesOf(m) \cup PhaseTablesUpTo(m - 1)

PhaseTables == PhaseTablesUpTo(MaxEpochs)

(* Tables that vary the Activity and the Light of every epoch; the phases  *)
(* and classifications alternate.                                          *)
PhaseAt(i) == IF i % 2 = 1 THEN "Active" ELSE "Rest"
ClassAt(i) == IF i % 2 = 1 THEN "Wake" ELSE "Sleep"

TotalTablesOf(n) ==
    {[i \in 1..n |-> Epoch(1350 + 45 * (i - 1), d[i], PhaseAt(i), ClassAt(i),
                           act[i], li[i])] :
        d \in DaySeqs(n), act \in [1..n -> ActivityValues], li \in [1..n -> LightValues]}

RECURSIVE TotalTablesUpTo(_)
TotalTablesUpTo(m) == IF m = 0 THEN {} ELSE TotalTablesOf(m) \cup TotalTablesUpTo(m - 1)

TotalTables == TotalTablesUpTo(MaxEpochs)

(* Tables of n consecutive hours of one calendar day, from hour `first`    *)
(* on, two epochs an hour (at :00 and :30).  The first epoch of an hour    *)
(* has Activity `base`; the second has Activity `peak` in the three hours  *)
(* from the peakAt-th on, and 0 elsewhere.  The analytic day changes at    *)
(* hour `b`: earlier hours are Split_Day 1, later ones Split_Day 2.        *)
HourTable(first, n, base, peak, peakAt, b) ==
    [i \in 1..(2 * n) |->
        LET k == (i + 1) \div 2
            h == first + k - 1
        IN  Epoch(h * 60 + (IF i % 2 = 1 THEN 0 ELSE 30),
                  IF h < b THEN 1 ELSE 2,
                  IF h < 7 THEN "Rest" ELSE "Active",
                  IF h < 7 THEN "Sleep" ELSE "Wake",
                  IF i % 2 = 1 THEN base
                  ELSE IF k \in peakAt..(peakAt + 2) THEN peak ELSE 0,
                  1)]

(* A whole day, hours 0 to 23, two epochs of Activity 5 in every hour.     *)
UniformDay ==
    [i \in 1..(2 * (LastHour + 1)) |->
        Epoch(30 * (i - 1), 1, IF i <= 14 THEN "Rest" ELSE "Active",
              IF i <= 14 THEN "Sleep" ELSE "Wake", 5, 1)]

HourTables ==
    {HourTable(first, n, base, peak, peakAt, b) :
        first \in 0..MaxFirstHour, n \in 1..MaxHours, base \in 0..MaxBase,
        peak \in 0..MaxPeak, peakAt \in 1..MaxHours, b \in {0, 1, 2}}
      \cup {UniformDay}

(* Tables of at most m epochs that vary the day and the phase of every     *)
(* epoch; the Rest and Falling_Asleep epochs are classified Sleep, the     *)
(* others Wake, and the Activity and the Light grow with the position.     *)
ClassOf(iv) == IF iv \in {"Rest", "Falling_Asleep"} THEN "Sleep" ELSE "Wake"

LabelTablesOf(n) ==
    {[i \in 1..n |-> Epoch(1350 + 45 * (i - 1), d[i], iv[i], ClassOf(iv[i]), 5 * i, i)] :
        d \in DaySeqs(n), iv \in [1..n -> Intervals]}

RECURSIVE LabelTables(_)
LabelTables(m) == IF m = 0 THEN {} ELSE LabelTablesOf(m) \cup LabelTables(m - 1)

(* A night with all four phases: an Active epoch, a Falling_Asleep epoch,  *)
(* k Rest epochs asleep and one awake, a Waking_Up epoch and an Active     *)
(* epoch, the last two on the next Split_Day when `split`.                 *)
NightPhases(k) ==
    <<"Active", "Falling_Asleep">> \o [i \in 1..(k + 1) |-> "Rest"]
        \o <<"Waking_Up", "Active">>

NightTable(k, split) ==
    [i \in 1..(k + 5) |->
        Epoch(1350 + 45 * (i - 1),
              IF split /\ i > k + 3 THEN 2 ELSE 1,
              NightPhases(k)[i],
              IF NightPhases(k)[i] = "Rest" /\ i < k + 3 THEN "Sleep" ELSE "Wake",
              5 * i, i)]

NightTables == {NightTable(k, split) : k \in 1..MaxCallEpochs, split \in BOOLEAN}

CallTables == LabelTables(MaxCallEpochs) \cup NightTables

(* --------------------------------------------------------------- actions *)

(* The caller's table after a call that assigned the columns `assigned`:   *)
(* every assignment of a reducer targets a frame derived from df           *)
(* (metrics_filter, latency_filter, bedtime_pivot, rest_phase, ra,         *)
(* totals), never df itself.                                               *)
CallerTable_inplace(t, assigned) ==
    [i \in DOMAIN t |-> [c \in (DOMAIN t[i]) \cup assigned |->
                            IF c \in DOMAIN t[i] THEN t[i][c] ELSE 0]]

CallerTable(t, assigned) == t

(* A call of reducer `op` with the scalar arguments `args` returning r.    *)
(* `repeat` records that the call before was the same call.                *)
Do(op, args, r) ==
    /\ call' = [op |-> op, args |-> args]
    /\ result' = r
    /\ repeat' = (call = [op |-> op, args |-> args])
    /\ df' = CallerTable(df, r.columns)

Call_sleep_metrics ==
    \E rf \in RecFreqs : Do("sleep_metrics", <<rf>>, sleep_metrics(df, rf))

Call_sleep_latency ==
    \E rf \in RecFreqs : Do("sleep_latency", <<rf>>, sleep_latency(df, rf))

Call_bedtime == Do("bedtime", <<>>, bedtime(df))

Call_relative_amplitude ==
    \E sh \in StartHours : Do("relative_amplitude", <<sh>>, relative_amplitude(df, sh))

Call_total_values ==
    \E rf \in RecFreqs : Do("total_values", <<rf>>, total_values(df, rf))

NotCalled == call.op = "none"

First_sleep_metrics == NotCalled /\ Call_sleep_metrics
First_sleep_latency == NotCalled /\ Call_sleep_latency
First_bedtime == NotCalled /\ Call_bedtime
First_relative_amplitude == NotCalled /\ Call_relative_amplitude
First_total_values == NotCalled /\ Call_total_values

InitCall ==
    /\ call = [op |-> "none", args |-> <<>>]
    /\ result = NoCall
    /\ repeat = FALSE

(* A caller that calls the reducers any number of times, in any order.     *)
Init == df \in CallTables /\ InitCall

Next ==
    \/ Call_sleep_metrics
    \/ Call_sleep_latency
    \/ Call_bedtime
    \/ Call_relative_amplitude
    \/ Call_total_values

Spec == Init /\ [][Next]_vars

(* The reducers are pure functions of the table and the scalar arguments:  *)
(* the specifications below apply one reducer once to every table of a     *)
(* family.                                                                 *)
InitPhases == df \in (PhaseTables \cup LabelTables(MaxLabelEpochs) \cup NightTables) /\ InitCall

NextPhases == First_sleep_metrics \/ First_sleep_latency \/ First_bedtime

SpecPhases == InitPhases /\ [][NextPhases]_vars

(* The same, for the tables in which both classifications occur.           *)
InitClassified ==
    /\ df \in {t \in PhaseTables \cup LabelTables(MaxLabelEpochs) \cup NightTables :
                  Unique(t, "Sleep_Acti") = Classes}
    /\ InitCall

SpecClassified == InitClassified /\ [][NextPhases]_vars

InitHours == df \in HourTables /\ InitCall

NextHours == First_relative_amplitude

SpecHours == InitHours /\ [][NextHours]_vars

InitTotals == df \in TotalTables /\ InitCall

NextTotals == First_total_values

SpecTotals == InitTotals /\ [][NextTotals]_vars

(* ============================================================ properties *)

Called(op) == call.op = op

Labels == Unique(df, "Interval")

(* The number of the epochs of day d, phase iv, classification cl.          *)
EpochCount(d, iv, cl) ==
    Len(SelectSeq(df, LAMBDA e : e.Split_Day = d /\ e.Interval = iv /\ e.Sleep_Acti = cl))

PhaseCount(d, iv) == EpochCount(d, iv, "Sleep") + EpochCount(d, iv, "Wake")

DaysWith(ivs) == {e.Split_Day : e \in {df[i] : i \in {j \in DOMAIN df : df[j].Interval \in ivs}}}

AllDays == {df[i].Split_Day : i \in DOMAIN df}

ResultDays == {result.rows[i].Split_Day : i \in DOMAIN result.rows}

(* The result is a table with exactly one row for each day of D.            *)
OneRowPerDay(D) ==
    /\ result.kind = "table"
    /\ ResultDays = D
    /\ Len(result.rows) = Cardinality(D)

RowOf(d) == result.rows[CHOOSE i \in DOMAIN result.rows : result.rows[i].Split_Day = d]

(* C1: sleep_metrics returns exactly one row per Split_Day that has a Rest  *)
(* epoch, with TST_Min = sleep_count * (rec_freq / 60), WASO_Min =          *)
(* wake_count * (rec_freq / 60) and SE = 100 * sleep_count / (sleep_count   *)
(* + wake_count), for every input table and every rec_freq > 0.             *)
C1_SleepMetricsPerRestDay ==
    Called("sleep_metrics") =>
        /\ OneRowPerDay(DaysWith({"Rest"}))
        /\ \A d \in DaysWith({"Rest"}) :
              LET sc == EpochCount(d, "Rest", "Sleep")
                  wc == EpochCount(d, "Rest", "Wake")
              IN  /\ FracEq(RowOf(d).TST_Min, Frac(sc * call.args[1], 60))
                  /\ FracEq(RowOf(d).WASO_Min, Frac(wc * call.args[1], 60))
                  /\ FracEq(RowOf(d).SE, Frac(100 * sc, sc + wc))

(* C2: sleep_latency on a table with no Falling_Asleep epoch, and bedtime   *)
(* on a table with no Waking_Up epoch, return None and do not raise,        *)
(* whatever the other phase labels are.                                     *)
C2_NotApplicableIsNone ==
    /\ (Called("sleep_latency") /\ "Falling_Asleep" \notin Labels) => result = None
    /\ (Called("bedtime") /\ "Waking_Up" \notin Labels) => result = None

C2_Witness ==
    /\ Called("sleep_latency")
    /\ "Falling_Asleep" \notin Labels
    /\ {"Waking_Up", "Rest"} \subseteq Labels
    /\ result = None

(* C3: for a table with a Falling_Asleep epoch, sleep_latency returns a     *)
(* table with both columns Sleep_Latency_Min and Wake_Latency_Min, one row  *)
(* per day (that has one of the two phases), holding the number of the      *)
(* day's Falling_Asleep, resp. Waking_Up, epochs times rec_freq / 60, and 0 *)
(* for a missing phase, also when no epoch of the table is Waking_Up.       *)
C3_LatencyBothColumns ==
    (Called("sleep_latency") /\ "Falling_Asleep" \in Labels) =>
        /\ OneRowPerDay(DaysWith({"Falling_Asleep", "Waking_Up"}))
        /\ {"Sleep_Latency_Min", "Wake_Latency_Min"} \subseteq result.columns
        /\ \A d \in DaysWith({"Falling_Asleep", "Waking_Up"}) :
              /\ FracEq(RowOf(d).Sleep_Latency_Min,
                        Frac(PhaseCount(d, "Falling_Asleep") * call.args[1], 60))
              /\ FracEq(RowOf(d).Wake_Latency_Min,
                        Frac(PhaseCount(d, "Waking_Up") * call.args[1], 60))

(* The earliest DateTime of the epochs of day d and phase iv.               *)
Earliest(d, iv) ==
    LET ts == {df[i].DateTime : i \in {j \in DOMAIN df : /\ df[j].Split_Day = d
                                                         /\ df[j].Interval = iv}}
    IN  CHOOSE x \in ts : \A y \in ts : x <= y

HourAndMinute(x) == Frac(60 * ((x \div 60) % 24) + (x % 60), 60)

(* C4: for a table with a Waking_Up epoch, Falling_Asleep and Active being  *)
(* present or absent, bedtime returns without failing one row per           *)
(* Split_Day, Time_Bed = hour + minute/60 of the earliest Rest DateTime of  *)
(* the day, Time_Wake likewise of the earliest Waking_Up DateTime, and no   *)
(* Falling_Asleep or Active column.                                         *)
C4_BedtimeOptionalLabels ==
    (Called("bedtime") /\ "Waking_Up" \in Labels) =>
        /\ OneRowPerDay(AllDays)
        /\ result.columns \cap {"Falling_Asleep", "Active"} = {}
        /\ \A d \in DaysWith({"Rest"}) :
              FracEq(RowOf(d).Time_Bed, HourAndMinute(Earliest(d, "Rest")))
        /\ \A d \in DaysWith({"Waking_Up"}) :
              FracEq(RowOf(d).Time_Wake, HourAndMinute(Earliest(d, "Waking_Up")))

(* The place of hour h in the cyclical order that starts at hour s.         *)
CyclicKey(h, s) == (h - s + LastHour + 1) % (LastHour + 1)

(* The Activity of hour h of day d.                                         *)
HourActivity(d, h) ==
    SumSeq([i \in DOMAIN df |-> IF df[i].Split_Day = d /\ df[i].Hour = h
                                THEN df[i].Activity ELSE 0])

(* The hourly Activity sums of day d in the cyclical order starting at s.   *)
CyclicSums(d, s) ==
    LET hs == {df[i].Hour : i \in {j \in DOMAIN df : df[j].Split_Day = d}}
        keys == SortedSeq({CyclicKey(h, s) : h \in hs})
    IN  [i \in DOMAIN keys |-> HourActivity(d, (keys[i] + s) % (LastHour + 1))]

(* The sums of all the windows of w consecutive entries of ss.              *)
WindowSums(ss, w) == {SumSeq(SubSeq(ss, i, i + w - 1)) : i \in 1..(Len(ss) - w + 1)}

CyclicM10(d, s) ==
    LET ws == WindowSums(CyclicSums(d, s), Window10)
    IN  IF ws = {} THEN NaN ELSE Frac(CHOOSE x \in ws : \A y \in ws : x >= y, 1)

CyclicL5(d, s) ==
    LET ws == WindowSums(CyclicSums(d, s), Window5)
    IN  IF ws = {} THEN NaN ELSE Frac(CHOOSE x \in ws : \A y \in ws : x <= y, 1)

(* C5: relative_amplitude returns one row per Split_Day; M10 is the largest *)
(* sum of 10 consecutive hourly Activity sums of the day listed in cyclical *)
(* hour order, L5 the smallest sum of 5 consecutive ones (undefined for a   *)
(* day with fewer entries), and RA = (M10 - L5) / (M10 + L5).               *)
C5_AmplitudeOverCyclicWindows ==
    Called("relative_amplitude") =>
        /\ OneRowPerDay(AllDays)
        /\ \A d \in AllDays :
              LET hs == hours(df, call.args[1])
                  M == CyclicM10(d, call.args[1])
                  L == CyclicL5(d, call.args[1])
              IN  /\ m10(df, hs, d) = M
                  /\ l5(df, hs, d) = L
                  /\ IF IsNaN(M) \/ IsNaN(L) \/ M.num + L.num = 0
                     THEN IsNaN(RowOf(d).RA)
                     ELSE FracEq(RowOf(d).RA, Frac(M.num - L.num, M.num + L.num))

(* C6: with non-negative Activity, for every day with M10 and L5 defined    *)
(* and M10 + L5 > 0, the RA returned lies in [-1, 1], that is               *)
(* -(M10 + L5) <= M10 - L5 <= M10 + L5.                                     *)
C6_AmplitudeBounded ==
    (Called("relative_amplitude") /\ \A j \in DOMAIN df : df[j].Activity >= 0) =>
        \A i \in DOMAIN result.rows :
            LET r == result.rows[i]
                M == m10(df, hours(df, call.args[1]), r.Split_Day)
                L == l5(df, hours(df, call.args[1]), r.Split_Day)
            IN  (~IsNaN(M) /\ ~IsNaN(L) /\ M.num + L.num > 0) =>
                    /\ r.RA.den > 0
                    /\ -r.RA.den <= r.RA.num
                    /\ r.RA.num <= r.RA.den
                    /\ -(M.num + L.num) <= M.num - L.num
                    /\ M.num - L.num <= M.num + L.num

C6_Witness ==
    /\ Called("relative_amplitude")
    /\ \A i \in DOMAIN df : df[i].Activity >= 0
    /\ \E i \in DOMAIN result.rows :
          LET r == result.rows[i]
              M == m10(df, hours(df, call.args[1]), r.Split_Day)
              L == l5(df, hours(df, call.args[1]), r.Split_Day)
          IN  /\ ~IsNaN(M) /\ ~IsNaN(L)
              /\ L.num > 0
              /\ M.num > 2 * L.num
              /\ r.RA.num > 0

(* The sum of column col over the epochs of day d.                          *)
ColumnTotal(d, col) ==
    SumSeq([i \in DOMAIN df |-> IF df[i].Split_Day = d THEN df[i][col] ELSE 0])

(* C7: total_values returns exactly one row per distinct Split_Day, its     *)
(* Activity and Light the sums over all the epochs of the day whatever      *)
(* their Interval and Sleep_Acti, the same for every rec_freq.              *)
C7_TotalsPerDay ==
    Called("total_values") =>
        /\ OneRowPerDay(AllDays)
        /\ \A d \in AllDays :
              /\ RowOf(d).Activity = ColumnTotal(d, "Activity")
              /\ RowOf(d).Light = ColumnTotal(d, "Light")
        /\ \A rf \in RecFreqs : total_values(df, rf) = result

C7_Witness ==
    /\ Called("total_values")
    /\ [i \in DOMAIN df |-> df[i].Activity] = <<5, 10, 15>>
    /\ [i \in DOMAIN df |-> df[i].Light] = <<1, 2, 3>>
    /\ AllDays = {1}
    /\ Cardinality(Labels) > 1
    /\ Len(result.rows) = 1
    /\ result.rows[1].Activity = 30
    /\ result.rows[1].Light = 6

C9_HoursInCyclicOrder ==
    Called("relative_amplitude") =>
        LET hs == hours(df, call.args[1])
        IN  \A a, b \in Unique(df, "Hour") :
                (Order(hs, a) < Order(hs, b))
                    <=> (CyclicKey(a, call.args[1]) < CyclicKey(b, call.args[1]))

(* C10: the pivot of sleep_metrics and sleep_latency has, for every         *)
(* (Split_Day, Interval) group of the table and each of Sleep and Wake, a   *)
(* count that is the number of such epochs, 0 when there is none; so a day  *)
(* whose Rest epochs are all Sleep gets WASO_Min = 0 and SE = 100, and one  *)
(* whose Rest epochs are all Wake gets TST_Min = 0 and SE = 0.              *)
C10_PivotCountsDefined ==
    (\/ Called("sleep_metrics")
     \/ Called("sleep_latency") /\ "Falling_Asleep" \in Labels) =>
        /\ \A g \in pivot(df).index : \A c \in Classes :
              /\ c \in pivot(df).columns
              /\ pivot(df).count[g][c] = EpochCount(g[1], g[2], c)
        /\ Called("sleep_metrics") =>
              \A d \in DaysWith({"Rest"}) :
                  /\ result.kind = "table"
                  /\ d \in ResultDays
                  /\ EpochCount(d, "Rest", "Wake") = 0 =>
                        /\ FracEq(RowOf(d).WASO_Min, Frac(0, 1))
                        /\ FracEq(RowOf(d).SE, Frac(100, 1))
                  /\ EpochCount(d, "Rest", "Sleep") = 0 =>
                        /\ FracEq(RowOf(d).TST_Min, Frac(0, 1))
                        /\ FracEq(RowOf(d).SE, Frac(0, 1))

====
